---------------------------- MODULE Spec2Model ----------------------------
(***************************************************************************)
(* Session lifecycle manager (WhatsAppManager) and coalesced credential    *)
(* save (AuthStateManager.getAuthState.saveState).                          *)
(*                                                                         *)
(* Node runs one handler at a time; a handler gives up control only at an  *)
(* await of real I/O (a store query, the transport).  One action of this   *)
(* model is therefore one run of a handler from the event that starts or   *)
(* resumes it to its next I/O await, promise reactions (microtasks)        *)
(* included.                                                               *)
(***************************************************************************)
EXTENDS Integers, Sequences, FiniteSets, TLC

\* ------------------------------------------------------------------ bounds
MaxSockets == 2      \* createConnection calls not yet forgotten (CallSpec, PairSpec)
MaxLive == 1         \* the same, in Spec and RetrySpec
MaxWaiters == 2      \* startConnection calls of the gateway awaiting one attempt
MaxStray == 4        \* live restart timers pendingReconnects no longer holds
MaxRestarts == 6     \* cap of the history counter restarts (RetrySpec)
MaxMut == 3          \* mutations of the credential state (SaveSpec)
MaxCalls == 2        \* results kept of commands made in a row (CommandSpec)
MaxQr == 2           \* qr payloads a transport issues (QrSpec)
MaxIds == 2          \* correlation ids of gateway requests (GatewaySpec)
MaxTries == 1        \* cap of the retry count (GatewaySpec)
MaxJoin == 2         \* cap of the history counter joined (SaveSpec)

\* --------------------------------------------------------- program constants
maxRetryAttempts == 5
baseDelay == 2000
maxDelay == 30000

SessionIds == {42, 43}
\* the session that the scenarios of one session drive
OneSession == {42}
Sockets == 1..MaxSockets

\* lastDisconnect.error of a close event: <<output.statusCode, message>>;
\* statusCode 0 stands for an error without a status code.
CloseReasons ==
    { <<401, "other">>, <<403, "other">>, <<408, "QR refs attempts ended">>,
      <<408, "other">>, <<428, "other">>, <<515, "other">>, <<0, "other">> }

VARIABLES
    sessions,            \* [id -> socket | 0]   registry
    connectionPromises,  \* [id -> socket | 0]   attempt token: the promise of that socket's createConnection
    deletedSessions,     \* set of ids
    pendingReconnects,   \* [id -> delay | 0]    the restart timer the map holds, named by its delay
    strayTimers,         \* [id -> Nat]          live restart timers the map no longer holds
    retryAttempts,       \* [id -> Nat]          0 = no entry
    sock,                \* [socket -> record]   createConnection calls and their transports
    storeStatus,         \* [id -> status]       "Whatsapps".status, ABSENT = no row
    recon,               \* reconcileSessionsWithDatabase: idle, or the fetched id set
    emitted,             \* status of the connectionUpdate the latest step emitted, or NONE
    restarts,            \* [id -> Nat] timer restarts in a row without CONNECTED (history, RetrySpec)
    lastPass,            \* how the latest reconciliation pass ended: none, failed, done (history, ReconSpec)
    returned,            \* <<command, id, result>> of the latest commands made in a row (history, CommandSpec)
    creds,               \* saveState closure: version of the creds object
    keys,                \* saveState closure: version of the keys object
    saveInProgress,
    pendingSave,
    writes,              \* updateWhatsappSession calls in flight: sequence of blobs
    storeSession,        \* "Whatsapps".session: a blob, << >> before the first write
    joined,              \* save requests since the write in flight began (history)
    causedBy,            \* the value of joined that made the write in flight (history)
    writeFailed,         \* some updateWhatsappSession has thrown (history)
    saveRequests,        \* saveState has been called (history)
    connectionData,      \* connectionData.session: the blob a restart starts from, << >> = none
    chainBy,             \* the caller whose saveState call made the write in flight, or none
    storeQueue,          \* queries the pg client holds, in the order they were issued
    login,               \* open handler of a new login: none, save, db1, db2, resolved
    pairedAt,            \* version of creds that got the paired identity, 0 = not paired (history)
    queryFailed,         \* updateWhatsappStatus or clearWhatsappQRCode has thrown (history)
    qrCode,              \* [socket -> Nat] wsocket.qrCode: the payload, 0 = undefined (QrSpec)
    storeQr,             \* [id -> Nat] "Whatsapps".qrcode, 0 = NULL (QrSpec)
    request,             \* the gateway request being handled: <<type, id>>, << >> = none
    responses,           \* what sendToClient has sent for it: <<type, id, error>>
    invoked,             \* methods called on the transport handle while handling it
    awaited,             \* id of the startConnection request whose handler awaits the
                         \* manager's answer, 0 = none
    initLoop,            \* initializeFromDatabase: pc, the rows not yet started, and the
                         \* id whose startConnection the loop awaits, 0 = none (IsoSpec)
    logout,              \* disconnectSession past session.logout(): "none", "erase"
                         \* (deleteAuthState awaited), "returned" (true returned)
    previous,            \* the saveState closure of the connection before the restart:
                         \* made (a restart has happened), its creds, keys,
                         \* saveInProgress, pendingSave and the caller awaiting its chain
    reconciliationTimer, \* the interval of startPeriodicReconciliation is set
    shutDown             \* shutdown() has completed (history)

mgrVars == <<sessions, connectionPromises, deletedSessions, pendingReconnects,
             strayTimers, retryAttempts, sock, storeStatus, recon, emitted>>
saveVars == <<creds, keys, saveInProgress, pendingSave, writes, storeSession,
              joined, causedBy, writeFailed, saveRequests>>
histVars == <<restarts, lastPass, returned>>
loginVars == <<connectionData, chainBy, storeQueue, login, pairedAt, queryFailed>>
qrVars == <<qrCode, storeQr>>
gwVars == <<request, responses, invoked, awaited>>
initVars == <<initLoop>>
lateVars == <<logout, previous, reconciliationTimer, shutDown>>
vars == <<mgrVars, histVars, saveVars, loginVars, qrVars, gwVars, initVars, lateVars>>

Min(a, b) == IF a <= b THEN a ELSE b
Range(q) == {q[i] : i \in DOMAIN q}

RECURSIVE Pow2(_)
Pow2(n) == IF n = 0 THEN 1 ELSE 2 * Pow2(n - 1)

\* ------------------------------------------------------------------ sockets
\* One record per createConnection call: its transport (st), its promise, the
\* position of its connection.update handlers, and the startConnection calls
\* that await it.
\*   st       creating (before makeWASocket), negotiating, open, closing
\*            (ws.close() called), closed (close emitted), ended (end() called),
\*            failed (createConnection threw)
\*   promise  pending, resolved, rejected
\*   hQr      none, db (await store)
\*   hOpen    none, save (await enhancedSaveState), db (await store), done
\*   hClose   none, termdb / maxdb (await store), done, dead (threw)
\*   byTimer  the restart-timer callback made the call
\*   waiters  gateway startConnection calls awaiting the promise
\*   earlyOk  a startConnection call found the session connected and returned
\*            success while this promise was the attempt token (history)
FreeSock ==
    [st |-> "free", id |-> 0, promise |-> "none", hQr |-> "none", hOpen |-> "none",
     hClose |-> "none", byTimer |-> FALSE, waiters |-> 0, earlyOk |-> FALSE]

NewSock(id, timer) ==
    [st |-> "creating", id |-> id, promise |-> "pending", hQr |-> "none",
     hOpen |-> "none", hClose |-> "none", byTimer |-> timer,
     waiters |-> IF timer THEN 0 ELSE 1, earlyOk |-> FALSE]

\* wsocket.user: set by the transport once it has authenticated (open emitted)
HasUser(r) == r.hOpen # "none"

\* the transport still delivers events to the handlers
Listening(r) == r.st \in {"negotiating", "open", "closing"}

HandlersIdle(r) ==
    /\ r.hQr = "none"
    /\ r.hOpen \in {"none", "done"}
    /\ r.hClose \in {"none", "done", "dead"}

\* A socket that neither map refers to and that can act no more is forgotten.
Inert(sk, sess, prom, s) ==
    /\ sk[s].st \in {"closed", "ended", "failed"}
    /\ HandlersIdle(sk[s])
    /\ \A i \in SessionIds : sess[i] # s /\ prom[i] # s

Collect(sk, sess, prom) ==
    [s \in Sockets |-> IF Inert(sk, sess, prom, s) THEN FreeSock ELSE sk[s]]

HasFree(sk) == \E s \in Sockets : sk[s].st = "free"
Alloc(sk) == CHOOSE s \in Sockets :
                /\ sk[s].st = "free"
                /\ \A t \in Sockets : sk[t].st = "free" => s <= t

\* ------------------------------------------------------------------- store
\* One pg Client serves every query (this.client), so queries take effect in the
\* order they are issued: a write is applied where the handler issues it, and
\* the handler goes on when the answer is back.
\* UPDATE "Whatsapps" SET status = ... WHERE id = ...: no row, no effect;
\* ok = FALSE: the query throws.
updateWhatsappStatus(id, status, ok) ==
    IF ok /\ storeStatus[id] # "ABSENT"
    THEN [storeStatus EXCEPT ![id] = status]
    ELSE storeStatus

\* SELECT ... WHERE status != 'DISCONNECTED'
getAllWhatsappConnections ==
    {i \in SessionIds : storeStatus[i] \notin {"ABSENT", "DISCONNECTED"}}

\* ------------------------------------------------------- promise settlement
\* resolve / reject of a createConnection promise and the reactions that run
\* with it: the awaiting startConnection calls return, the call that created
\* the promise deletes connectionPromises[id] whatever it holds.
Pending(s) == sock[s].promise = "pending"

Settled(sk, s, ok) ==
    [sk EXCEPT ![s].promise = IF ok THEN "resolved" ELSE "rejected",
               ![s].waiters = 0]

Commit(sk, sess, prom) ==
    /\ sessions' = sess
    /\ connectionPromises' = prom
    /\ sock' = Collect(sk, sess, prom)

\* Commit after settling the promise of s (no effect on a settled promise)
CommitSettle(sk, sess, s, ok) ==
    IF Pending(s)
    THEN Commit(Settled(sk, s, ok), sess,
                [connectionPromises EXCEPT ![sock[s].id] = 0])
    ELSE Commit(sk, sess, connectionPromises)

\* ------------------------------------------------------------ startConnection
\* a startConnection that never takes a session for connected
AlreadyConnectedNever(id) == FALSE

\* existingSession && existingSession.user
AlreadyConnected(id) == sessions[id] # 0 /\ HasUser(sock[sessions[id]])

\* this.connectionPromises.has(id)
AttemptInFlight(id) == connectionPromises[id] # 0

\* a gateway client calls startConnection(id): the call runs to its return
\* (already connected) or to its await (join, or createConnection)
startConnection(id) ==
    /\ deletedSessions' = deletedSessions \ {id}
    /\ IF AlreadyConnected(id)
       THEN Commit(IF AttemptInFlight(id)
                   THEN [sock EXCEPT ![connectionPromises[id]].earlyOk = TRUE]
                   ELSE sock,
                   sessions, connectionPromises)
       ELSE IF AttemptInFlight(id)
       THEN /\ sock[connectionPromises[id]].waiters < MaxWaiters
            /\ Commit([sock EXCEPT ![connectionPromises[id]].waiters = @ + 1],
                      sessions, connectionPromises)
       ELSE /\ HasFree(sock)
            /\ Commit([sock EXCEPT ![Alloc(sock)] = NewSock(id, FALSE)], sessions,
                      [connectionPromises EXCEPT ![id] = Alloc(sock)])
    /\ emitted' = "NONE"
    /\ UNCHANGED <<pendingReconnects, strayTimers, retryAttempts, storeStatus, recon>>

\* ----------------------------------------------------------- createConnection
\* after fetchLatestBaileysVersion and getAuthState: makeWASocket, listeners on
makeWASocket(s) ==
    /\ sock[s].st = "creating"
    /\ Commit([sock EXCEPT ![s].st = "negotiating"], sessions, connectionPromises)
    /\ emitted' = "NONE"
    /\ UNCHANGED <<deletedSessions, pendingReconnects, strayTimers, retryAttempts,
                   storeStatus, recon>>

\* createConnection throws before a transport exists (catch, rethrow)
makeWASocketThrows(s) ==
    /\ sock[s].st = "creating"
    /\ CommitSettle([sock EXCEPT ![s].st = "failed"], sessions, s, FALSE)
    /\ emitted' = "NONE"
    /\ UNCHANGED <<deletedSessions, pendingReconnects, strayTimers, retryAttempts,
                   storeStatus, recon>>

\* ----------------------------------------------- connection.update: qr
\* a qr event (one handler run at a time): sessions.set,
\* updateWhatsappStatus(QR_PENDING, qr) issued
onQr(s, ok) ==
    /\ sock[s].st = "negotiating"
    /\ sock[s].hQr = "none"
    /\ storeStatus' = updateWhatsappStatus(sock[s].id, "QR_PENDING", ok)
    /\ Commit([sock EXCEPT ![s].hQr = "db"], [sessions EXCEPT ![sock[s].id] = s],
              connectionPromises)
    /\ emitted' = "NONE"
    /\ UNCHANGED <<deletedSessions, pendingReconnects, strayTimers, retryAttempts, recon>>

\* the store has answered (errors caught): the qrGenerated and the
\* connectionUpdate QR_PENDING events
qrDone(s) ==
    /\ sock[s].hQr = "db"
    /\ Commit([sock EXCEPT ![s].hQr = "none"], sessions, connectionPromises)
    /\ emitted' = "QR_PENDING"
    /\ UNCHANGED <<deletedSessions, pendingReconnects, strayTimers, retryAttempts,
                   storeStatus, recon>>

\* ----------------------------------------------- connection.update: open
\* isNewLogin: await enhancedSaveState() first; else status CONNECTED,
\* sessions.set, updateWhatsappStatus(CONNECTED) issued
onOpen(s, isNewLogin, ok) ==
    /\ sock[s].st = "negotiating"
    /\ IF isNewLogin
       THEN /\ Commit([sock EXCEPT ![s].st = "open", ![s].hOpen = "save"],
                      sessions, connectionPromises)
            /\ UNCHANGED storeStatus
       ELSE /\ Commit([sock EXCEPT ![s].st = "open", ![s].hOpen = "db"],
                      [sessions EXCEPT ![sock[s].id] = s], connectionPromises)
            /\ storeStatus' = updateWhatsappStatus(sock[s].id, "CONNECTED", ok)
    /\ emitted' = "NONE"
    /\ UNCHANGED <<deletedSessions, pendingReconnects, strayTimers, retryAttempts, recon>>

\* enhancedSaveState has returned (it swallows its errors)
openSaved(s, ok) ==
    /\ sock[s].hOpen = "save"
    /\ Commit([sock EXCEPT ![s].hOpen = "db"], [sessions EXCEPT ![sock[s].id] = s],
              connectionPromises)
    /\ storeStatus' = updateWhatsappStatus(sock[s].id, "CONNECTED", ok)
    /\ emitted' = "NONE"
    /\ UNCHANGED <<deletedSessions, pendingReconnects, strayTimers, retryAttempts, recon>>

\* the store has answered (updateWhatsappStatus, clearWhatsappQRCode; errors
\* caught): connectionUpdate CONNECTED, resolve(wsocket); a restart-timer
\* callback awaiting the promise then deletes retryAttempts[id]
openDone(s) ==
    /\ sock[s].hOpen = "db"
    /\ CommitSettle([sock EXCEPT ![s].hOpen = "done"], sessions, s, TRUE)
    /\ retryAttempts' = IF Pending(s) /\ sock[s].byTimer
                        THEN [retryAttempts EXCEPT ![sock[s].id] = 0]
                        ELSE retryAttempts
    /\ emitted' = "CONNECTED"
    /\ UNCHANGED <<deletedSessions, pendingReconnects, strayTimers, storeStatus, recon>>

\* ----------------------------------------------- connection.update: close
\* a close handler whose noRestartErrorCodes lacks 403
isTerminalCloseNo403(reason) ==
    \/ reason[1] # 0 /\ reason[1] \in {401}
    \/ reason[1] = 408 /\ reason[2] = "QR refs attempts ended"

\* statusCode && [401, 403].includes(statusCode) || isQrAttemptsEnded
isTerminalClose(reason) ==
    \/ reason[1] # 0 /\ reason[1] \in {401, 403}
    \/ reason[1] = 408 /\ reason[2] = "QR refs attempts ended"

\* handleStreamRestart: currentRetries >= this.maxRetryAttempts
maxReached(currentRetries) == currentRetries >= maxRetryAttempts

\* a scheduler that backs off linearly
backoffLinear(currentRetries) == Min(baseDelay * (currentRetries + 1), maxDelay)

\* handleStreamRestart: Math.min(baseDelay * Math.pow(2, currentRetries), maxDelay)
backoffDelay(currentRetries) == Min(baseDelay * Pow2(currentRetries), maxDelay)

\* a scheduler that stores the count it read
nextRetriesKept(currentRetries) == currentRetries

\* handleStreamRestart: this.retryAttempts.set(id, currentRetries + 1)
nextRetries(currentRetries) == currentRetries + 1

LiveTimers(id) == strayTimers[id] + (IF pendingReconnects[id] # 0 THEN 1 ELSE 0)

\* wsocket.status = 'DISCONNECTED'; this.removeSession(id)
Closed(s) == [sock EXCEPT ![s].st = "closed"]
removeSession(id) == [sessions EXCEPT ![id] = 0]

\* terminal reason: updateWhatsappStatus(DISCONNECTED) issued and awaited
\* outside any try: if it throws, the handler ends there
onCloseTerminal(s, reason, ok) ==
    /\ Listening(sock[s])
    /\ isTerminalClose(reason)
    /\ Commit([Closed(s) EXCEPT ![s].hClose = IF ok THEN "termdb" ELSE "dead"],
              removeSession(sock[s].id), connectionPromises)
    /\ storeStatus' = updateWhatsappStatus(sock[s].id, "DISCONNECTED", ok)
    /\ emitted' = "NONE"
    /\ UNCHANGED <<deletedSessions, pendingReconnects, strayTimers, retryAttempts, recon>>

\* other reason, handleStreamRestart with the retries used up:
\* retryAttempts.delete, updateWhatsappStatus(DISCONNECTED) issued (errors caught)
onCloseGiveUp(s, reason, ok) ==
    /\ Listening(sock[s])
    /\ ~isTerminalClose(reason)
    /\ maxReached(retryAttempts[sock[s].id])
    /\ retryAttempts' = [retryAttempts EXCEPT ![sock[s].id] = 0]
    /\ Commit([Closed(s) EXCEPT ![s].hClose = "maxdb"],
              removeSession(sock[s].id), connectionPromises)
    /\ storeStatus' = updateWhatsappStatus(sock[s].id, "DISCONNECTED", ok)
    /\ emitted' = "NONE"
    /\ UNCHANGED <<deletedSessions, pendingReconnects, strayTimers, recon>>

\* other reason, handleStreamRestart: retry count up, setTimeout,
\* pendingReconnects.set (the timer it held stays live), then the
\* connectionUpdate DISCONNECTED and reject
onCloseTransient(s, reason) ==
    /\ Listening(sock[s])
    /\ ~isTerminalClose(reason)
    /\ ~maxReached(retryAttempts[sock[s].id])
    /\ retryAttempts' =
          [retryAttempts EXCEPT ![sock[s].id] = nextRetries(retryAttempts[sock[s].id])]
    /\ strayTimers' =
          IF pendingReconnects[sock[s].id] # 0
          THEN [strayTimers EXCEPT ![sock[s].id] = @ + 1]
          ELSE strayTimers
    /\ pendingReconnects' =
          [pendingReconnects EXCEPT ![sock[s].id] = backoffDelay(retryAttempts[sock[s].id])]
    /\ CommitSettle([Closed(s) EXCEPT ![s].hClose = "done"],
                    removeSession(sock[s].id), s, FALSE)
    /\ emitted' = "DISCONNECTED"
    /\ UNCHANGED <<deletedSessions, storeStatus, recon>>

onClose(s, reason, ok) ==
    \/ onCloseTerminal(s, reason, ok)
    \/ onCloseGiveUp(s, reason, ok)
    \/ ok /\ onCloseTransient(s, reason)

\* the store has answered: connectionUpdate DISCONNECTED, reject
closeDone(s) ==
    /\ sock[s].hClose \in {"termdb", "maxdb"}
    /\ CommitSettle([sock EXCEPT ![s].hClose = "done"], sessions, s, FALSE)
    /\ emitted' = "DISCONNECTED"
    /\ UNCHANGED <<deletedSessions, pendingReconnects, strayTimers, retryAttempts,
                   storeStatus, recon>>

\* ------------------------------------------------------------ cleanupSession
\* session.end(undefined) and removeAllListeners on the registry's socket of each id in E
EndSessions(sk, E) ==
    [s \in Sockets |->
        IF sk[s].id \in E /\ sessions[sk[s].id] = s
        THEN [sk[s] EXCEPT !.st = IF @ = "closed" THEN "closed" ELSE "ended"]
        ELSE sk[s]]

\* an eviction that sweeps every id
WithoutAll(f, E) == [i \in SessionIds |-> 0]

Without(f, E) == [i \in SessionIds |-> IF i \in E THEN 0 ELSE f[i]]

\* ------------------------------------------- handleStreamRestart: the timer fires
\* pendingReconnects.delete(id), cleanupSession(id), connectionPromises.delete(id),
\* startConnection(connectionData) up to its await
restartTimeout(id, stray) ==
    /\ IF stray THEN strayTimers[id] > 0 ELSE pendingReconnects[id] # 0
    /\ pendingReconnects' = Without(pendingReconnects, {id})
    /\ strayTimers' =
          IF stray /\ pendingReconnects[id] = 0
          THEN [strayTimers EXCEPT ![id] = @ - 1]
          ELSE strayTimers
    /\ retryAttempts' = Without(retryAttempts, {id})
    /\ deletedSessions' = deletedSessions \ {id}
    /\ LET sess1 == Without(sessions, {id})
           prom0 == Without(connectionPromises, {id})
           sk2 == Collect(EndSessions(sock, {id}), sess1, prom0)
       IN /\ HasFree(sk2)
          /\ Commit([sk2 EXCEPT ![Alloc(sk2)] = NewSock(id, TRUE)], sess1,
                    [prom0 EXCEPT ![id] = Alloc(sk2)])
    /\ emitted' = "NONE"
    /\ UNCHANGED <<storeStatus, recon>>

\* ------------------------------------------------------------- deleteSession
\* a marker that a second call takes back
markToggled(S, id) == IF id \in S THEN S \ {id} ELSE S \cup {id}

\* this.deletedSessions.add(whatsappId)
markDeleted(S, id) == S \cup {id}

deleteSession(id) ==
    /\ deletedSessions' = markDeleted(deletedSessions, id)
    /\ pendingReconnects' = Without(pendingReconnects, {id})
    /\ retryAttempts' = Without(retryAttempts, {id})
    /\ Commit(EndSessions(sock, {id}), Without(sessions, {id}),
              Without(connectionPromises, {id}))
    /\ emitted' = "NONE"
    /\ UNCHANGED <<strayTimers, storeStatus, recon>>

\* ----------------------------------------------------------- resetConnection
\* existingSession.ws.close(): the transport will report the close
WsClosed(sk, id) ==
    [s \in Sockets |->
        IF sessions[id] = s /\ sk[s].st \in {"negotiating", "open"}
        THEN [sk[s] EXCEPT !.st = "closing"]
        ELSE sk[s]]

resetConnection(id) ==
    /\ Commit(WsClosed(sock, id), Without(sessions, {id}), connectionPromises)
    /\ emitted' = "NONE"
    /\ UNCHANGED <<deletedSessions, pendingReconnects, strayTimers, retryAttempts,
                   storeStatus, recon>>

\* ---------------------------------------------------------- disconnectSession
\* deleteAuthState: updateWhatsappSession(id, ""), the blob of the empty string
EmptyBlob == <<"">>

\* session.logout(): the transport is told to log out and will report the close
LoggedOut(sk, id) ==
    [s \in Sockets |->
        IF sessions[id] = s /\ sk[s].st \in {"negotiating", "open"}
        THEN [sk[s] EXCEPT !.st = "closing"]
        ELSE sk[s]]

\* disconnectSession(id), from the answer of session.logout() on (the call
\* changes nothing before it): no session, or logout throws (ok = FALSE):
\* nothing; else deleteAuthState issued
disconnectSession(id, ok) ==
    /\ IF sessions[id] # 0 /\ ok
       THEN /\ Commit(LoggedOut(sock, id), sessions, connectionPromises)
            /\ storeSession' = EmptyBlob
       ELSE /\ Commit(sock, sessions, connectionPromises)
            /\ UNCHANGED storeSession
    /\ emitted' = "NONE"
    /\ UNCHANGED <<deletedSessions, pendingReconnects, strayTimers, retryAttempts,
                   storeStatus, recon>>

\* ------------------------------------------- reconcileSessionsWithDatabase
\* getAllWhatsappConnections issued; it answers with the rows, or throws (the
\* pass is logged and over)
reconcileFetch(ok) ==
    /\ recon.pc = "idle"
    /\ recon' = IF ok THEN [pc |-> "fetched", ids |-> getAllWhatsappConnections]
                ELSE recon
    /\ emitted' = "NONE"
    /\ UNCHANGED <<sessions, connectionPromises, deletedSessions, pendingReconnects,
                   strayTimers, retryAttempts, sock, storeStatus>>

\* deleteSession for every registry id the snapshot lacks, then deletedSessions.clear()
reconcileApply ==
    /\ recon.pc = "fetched"
    /\ LET E == {i \in SessionIds : sessions[i] # 0 /\ i \notin recon.ids} IN
       /\ pendingReconnects' = Without(pendingReconnects, E)
       /\ retryAttempts' = Without(retryAttempts, E)
       /\ Commit(EndSessions(sock, E), Without(sessions, E),
                 Without(connectionPromises, E))
    /\ deletedSessions' = {}
    /\ recon' = [pc |-> "idle", ids |-> {}]
    /\ emitted' = "NONE"
    /\ UNCHANGED <<strayTimers, storeStatus>>

\* the control plane removes the row of id from the store
rowDeleted(id) ==
    /\ storeStatus[id] # "ABSENT"
    /\ storeStatus' = [storeStatus EXCEPT ![id] = "ABSENT"]
    /\ emitted' = "NONE"
    /\ UNCHANGED <<sessions, connectionPromises, deletedSessions, pendingReconnects,
                   strayTimers, retryAttempts, sock, recon>>

\* ------------------------------------------------- getAuthState: saveState
\* a serialization that leaves the keys out
sessionDataCredsOnly(c, k) == <<c, 0>>

\* JSON.stringify({ creds, keys }): the blob is named by the versions it holds
sessionData(c, k) == <<c, k>>

\* a saveState without the in-progress check
saveNeverBusy(inProgress) == FALSE

\* if (saveInProgress)
saveBusy(inProgress) == inProgress

\* a saveState that forgets the pending marker
followUpNever(pending) == FALSE

\* if (pendingSave) after the write
followUp(pending) == pending

SaveKinds == {"creds.update", "keys.set", "isNewLogin"}

\* a save request: the creds.update listener (the library has changed creds),
\* keys.set (Object.assign into keys), or the open handler of a new login;
\* saveState then runs to its return or to its await
saveState(kind) ==
    /\ kind # "isNewLogin" => creds + keys < MaxMut
    /\ creds' = IF kind = "creds.update" THEN creds + 1 ELSE creds
    /\ keys' = IF kind = "keys.set" THEN keys + 1 ELSE keys
    /\ saveRequests' = TRUE
    /\ IF saveBusy(saveInProgress)
       THEN /\ pendingSave' = TRUE
            /\ joined' = Min(joined + 1, MaxJoin)
            /\ UNCHANGED <<saveInProgress, writes, causedBy>>
       ELSE /\ saveInProgress' = TRUE
            /\ writes' = Append(writes, sessionData(creds', keys'))
            /\ joined' = 0
            /\ causedBy' = 0
            /\ UNCHANGED pendingSave
    /\ UNCHANGED <<storeSession, writeFailed>>

\* updateWhatsappSession has answered: saveInProgress = false, and with
\* pendingSave set, saveState(creds) again
writeDone ==
    /\ writes # << >>
    /\ storeSession' = Head(writes)
    /\ IF followUp(pendingSave)
       THEN /\ pendingSave' = FALSE
            /\ saveInProgress' = TRUE
            /\ writes' = Append(Tail(writes), sessionData(creds, keys))
            /\ causedBy' = joined
       ELSE /\ saveInProgress' = FALSE
            /\ writes' = Tail(writes)
            /\ UNCHANGED <<pendingSave, causedBy>>
    /\ joined' = 0
    /\ UNCHANGED <<creds, keys, writeFailed, saveRequests>>

\* updateWhatsappSession has thrown: catch, saveInProgress = false
writeFails ==
    /\ writes # << >>
    /\ writes' = Tail(writes)
    /\ saveInProgress' = FALSE
    /\ writeFailed' = TRUE
    /\ joined' = 0
    /\ UNCHANGED <<creds, keys, pendingSave, storeSession, causedBy, saveRequests>>

\* ---------------------------------------------------------------- the manager
InitManager ==
    /\ sessions = [i \in SessionIds |-> 0]
    /\ connectionPromises = [i \in SessionIds |-> 0]
    /\ deletedSessions = {}
    /\ pendingReconnects = [i \in SessionIds |-> 0]
    /\ strayTimers = [i \in SessionIds |-> 0]
    /\ retryAttempts = [i \in SessionIds |-> 0]
    /\ sock = [s \in Sockets |-> FreeSock]
    /\ storeStatus = [i \in SessionIds |-> "CONNECTING"]
    /\ recon = [pc |-> "idle", ids |-> {}]
    /\ emitted = "NONE"
    /\ restarts = [i \in SessionIds |-> 0]
    /\ lastPass = "none"
    /\ returned = << >>

InitSave ==
    /\ creds = 0
    /\ keys = 0
    /\ saveInProgress = FALSE
    /\ pendingSave = FALSE
    /\ writes = << >>
    /\ storeSession = << >>
    /\ joined = 0
    /\ causedBy = 0
    /\ writeFailed = FALSE
    /\ saveRequests = FALSE

InitLogin ==
    /\ connectionData = << >>
    /\ chainBy = "none"
    /\ storeQueue = << >>
    /\ login = "none"
    /\ pairedAt = 0
    /\ queryFailed = FALSE

InitQr ==
    /\ qrCode = [s \in Sockets |-> 0]
    /\ storeQr = [i \in SessionIds |-> 0]

InitGateway ==
    /\ request = << >>
    /\ responses = << >>
    /\ invoked = << >>
    /\ awaited = 0

InitInit == initLoop = [pc |-> "start", rows |-> {}, awaiting |-> 0]

InitLate ==
    /\ logout = "none"
    /\ previous = [made |-> FALSE, creds |-> 0, keys |-> 0, saveInProgress |-> FALSE,
                   pendingSave |-> FALSE, chainBy |-> "none"]
    /\ reconciliationTimer = TRUE
    /\ shutDown = FALSE

Init == InitManager /\ InitSave /\ InitLogin /\ InitQr /\ InitGateway /\ InitInit /\ InitLate

Rest == UNCHANGED <<histVars, saveVars, loginVars, qrVars, gwVars, initVars, lateVars>>
RestButBlob ==
    UNCHANGED <<restarts, lastPass, creds, keys, saveInProgress, pendingSave, writes,
                joined, causedBy, writeFailed, saveRequests, loginVars, qrVars, gwVars, initVars, lateVars>>
StrayCap(n) == \A i \in SessionIds : strayTimers'[i] <= n
RetryCap(n) == \A i \in SessionIds : retryAttempts'[i] <= n
LiveCap(n) == Cardinality({s \in Sockets : sock'[s].st # "free"}) <= n

\* The manager with every command, timer and reconciliation pass, one
\* createConnection call at a time.
Next ==
    \/ \E id \in OneSession : startConnection(id) /\ LiveCap(MaxLive) /\ Rest
    \/ \E s \in Sockets : makeWASocket(s) /\ Rest
    \/ \E s \in Sockets : makeWASocketThrows(s) /\ Rest
    \/ \E s \in Sockets, ok \in BOOLEAN : onQr(s, ok) /\ Rest
    \/ \E s \in Sockets : qrDone(s) /\ Rest
    \/ \E s \in Sockets, isNewLogin, ok \in BOOLEAN : onOpen(s, isNewLogin, ok) /\ Rest
    \/ \E s \in Sockets, ok \in BOOLEAN : openSaved(s, ok) /\ Rest
    \/ \E s \in Sockets : openDone(s) /\ Rest
    \/ \E s \in Sockets, reason \in CloseReasons, ok \in BOOLEAN :
          onCloseTerminal(s, reason, ok) /\ Rest
    \/ \E s \in Sockets, reason \in CloseReasons, ok \in BOOLEAN :
          onCloseGiveUp(s, reason, ok) /\ Rest
    \/ \E s \in Sockets, reason \in CloseReasons :
          onCloseTransient(s, reason) /\ StrayCap(MaxStray) /\ Rest
    \/ \E s \in Sockets : closeDone(s) /\ Rest
    \/ \E id \in OneSession, stray \in BOOLEAN :
          restartTimeout(id, stray) /\ LiveCap(MaxLive) /\ Rest
    \/ \E id \in OneSession : deleteSession(id) /\ Rest
    \/ \E id \in OneSession : resetConnection(id) /\ Rest
    \/ \E ok \in BOOLEAN : reconcileFetch(ok) /\ Rest
    \/ reconcileApply /\ Rest
    \/ \E id \in OneSession : rowDeleted(id) /\ Rest

Spec == Init /\ [][Next]_vars

\* startConnection calls and transport events only: no deleteSession, no
\* resetConnection, no reconciliation, and no restart timer fires.
CallNext ==
    \/ \E id \in OneSession : startConnection(id) /\ LiveCap(MaxSockets) /\ Rest
    \/ \E s \in Sockets : makeWASocket(s) /\ Rest
    \/ \E s \in Sockets : makeWASocketThrows(s) /\ Rest
    \/ \E s \in Sockets, ok \in BOOLEAN : onQr(s, ok) /\ Rest
    \/ \E s \in Sockets : qrDone(s) /\ Rest
    \/ \E s \in Sockets, isNewLogin, ok \in BOOLEAN : onOpen(s, isNewLogin, ok) /\ Rest
    \/ \E s \in Sockets, ok \in BOOLEAN : openSaved(s, ok) /\ Rest
    \/ \E s \in Sockets : openDone(s) /\ Rest
    \/ \E s \in Sockets, reason \in CloseReasons, ok \in BOOLEAN :
          onCloseTerminal(s, reason, ok) /\ Rest
    \/ \E s \in Sockets, reason \in CloseReasons, ok \in BOOLEAN :
          onCloseGiveUp(s, reason, ok) /\ Rest
    \/ \E s \in Sockets, reason \in CloseReasons :
          onCloseTransient(s, reason) /\ StrayCap(MaxStray) /\ Rest
    \/ \E s \in Sockets : closeDone(s) /\ Rest

CallSpec == Init /\ [][CallNext]_vars

\* startConnection and deleteSession commands over transports that close for
\* terminal reasons only (no restart timer is ever set).
PairNext ==
    \/ \E id \in OneSession : startConnection(id) /\ LiveCap(MaxSockets) /\ Rest
    \/ \E id \in OneSession : deleteSession(id) /\ Rest
    \/ \E s \in Sockets : makeWASocket(s) /\ Rest
    \/ \E s \in Sockets : makeWASocketThrows(s) /\ Rest
    \/ \E s \in Sockets, ok \in BOOLEAN : onQr(s, ok) /\ Rest
    \/ \E s \in Sockets : qrDone(s) /\ Rest
    \/ \E s \in Sockets, isNewLogin, ok \in BOOLEAN : onOpen(s, isNewLogin, ok) /\ Rest
    \/ \E s \in Sockets, ok \in BOOLEAN : openSaved(s, ok) /\ Rest
    \/ \E s \in Sockets : openDone(s) /\ Rest
    \/ \E s \in Sockets, reason \in CloseReasons, ok \in BOOLEAN :
          onCloseTerminal(s, reason, ok) /\ Rest
    \/ \E s \in Sockets : closeDone(s) /\ Rest

PairSpec == Init /\ [][PairNext]_vars

\* The four session commands (startConnection, deleteSession, resetConnection,
\* disconnectSession) over transports that open and close, and restart timers.
\* the command returns r: the results of commands made with no step between
\* them are kept, the latest MaxCalls of them
Returns(command, id, r) ==
    returned' = IF Len(returned) < MaxCalls
                THEN Append(returned, <<command, id, r>>)
                ELSE Append(Tail(returned), <<command, id, r>>)

CommandRest == returned' = << >> /\ UNCHANGED <<restarts, lastPass, saveVars, loginVars, qrVars, gwVars, initVars, lateVars>>

CommandNext ==
    \/ \E id \in OneSession :
          /\ startConnection(id) /\ LiveCap(MaxLive)
          /\ IF AlreadyConnected(id)
             THEN /\ Returns("startConnection", id, TRUE)
                  /\ UNCHANGED <<restarts, lastPass, saveVars, loginVars, qrVars, gwVars, initVars, lateVars>>
             ELSE CommandRest
    \/ \E id \in OneSession :
          /\ deleteSession(id)
          /\ Returns("deleteSession", id, TRUE)
          /\ UNCHANGED <<restarts, lastPass, saveVars, loginVars, qrVars, gwVars, initVars, lateVars>>
    \/ \E id \in OneSession :
          /\ resetConnection(id)
          /\ Returns("resetConnection", id, TRUE)
          /\ UNCHANGED <<restarts, lastPass, saveVars, loginVars, qrVars, gwVars, initVars, lateVars>>
    \/ \E id \in OneSession, ok \in BOOLEAN :
          /\ disconnectSession(id, ok)
          /\ Returns("disconnectSession", id, sessions[id] # 0 /\ ok)
          /\ RestButBlob
    \/ \E s \in Sockets : makeWASocket(s) /\ CommandRest
    \/ \E s \in Sockets : makeWASocketThrows(s) /\ CommandRest
    \/ \E s \in Sockets, isNewLogin, ok \in BOOLEAN :
          onOpen(s, isNewLogin, ok) /\ CommandRest
    \/ \E s \in Sockets, ok \in BOOLEAN : openSaved(s, ok) /\ CommandRest
    \/ \E s \in Sockets : openDone(s) /\ CommandRest
    \/ \E s \in Sockets, reason \in CloseReasons, ok \in BOOLEAN :
          onClose(s, reason, ok) /\ StrayCap(MaxStray) /\ CommandRest
    \/ \E s \in Sockets : closeDone(s) /\ CommandRest
    \/ \E id \in OneSession, stray \in BOOLEAN :
          restartTimeout(id, stray) /\ LiveCap(MaxLive) /\ CommandRest

CommandSpec == Init /\ [][CommandNext]_vars

\* Reconciliation passes, with how the latest one ended, over sessions that are
\* started, deleted, opened and closed, and rows the control plane removes.
ReconNext ==
    \/ \E id \in OneSession : startConnection(id) /\ LiveCap(MaxLive) /\ Rest
    \/ \E id \in OneSession : deleteSession(id) /\ Rest
    \/ \E s \in Sockets : makeWASocket(s) /\ Rest
    \/ \E s \in Sockets, isNewLogin, ok \in BOOLEAN : onOpen(s, isNewLogin, ok) /\ Rest
    \/ \E s \in Sockets, ok \in BOOLEAN : openSaved(s, ok) /\ Rest
    \/ \E s \in Sockets : openDone(s) /\ Rest
    \/ \E s \in Sockets, reason \in CloseReasons, ok \in BOOLEAN :
          onClose(s, reason, ok) /\ StrayCap(MaxLive) /\ Rest
    \/ \E s \in Sockets : closeDone(s) /\ Rest
    \/ \E id \in OneSession, stray \in BOOLEAN :
          restartTimeout(id, stray) /\ LiveCap(MaxLive) /\ Rest
    \/ \E id \in OneSession : rowDeleted(id) /\ Rest
    \/ /\ reconcileFetch(TRUE)
       /\ UNCHANGED <<histVars, saveVars, loginVars, qrVars, gwVars, initVars, lateVars>>
    \/ /\ reconcileFetch(FALSE)
       /\ lastPass' = "failed"
       /\ UNCHANGED <<restarts, returned, saveVars, loginVars, qrVars, gwVars, initVars, lateVars>>
    \/ /\ reconcileApply
       /\ lastPass' = "done"
       /\ UNCHANGED <<restarts, returned, saveVars, loginVars, qrVars, gwVars, initVars, lateVars>>

ReconSpec == Init /\ [][ReconNext]_vars

\* ---------------------------------------------------------------- qrCode
\* the qrCode of a transport the manager has forgotten is gone with it
Swept(q) == [s \in Sockets |-> IF sock'[s].st = "free" THEN 0 ELSE q[s]]

\* qr branch: wsocket.qrCode = qr, the next payload of the transport, and
\* updateWhatsappStatus(id, 'QR_PENDING', qr) sets the column (no row: no effect)
qrIssued(s, ok) ==
    /\ qrCode[s] < MaxQr
    /\ qrCode' = Swept([qrCode EXCEPT ![s] = @ + 1])
    /\ storeQr' = IF ok /\ storeStatus[sock[s].id] # "ABSENT"
                  THEN [storeQr EXCEPT ![sock[s].id] = qrCode[s] + 1]
                  ELSE storeQr

\* open branch, store answered: clearWhatsappQRCode has set the column NULL,
\* or it or updateWhatsappStatus before it has thrown (cleared = FALSE);
\* wsocket.qrCode is not assigned
qrAtOpen(s, cleared) ==
    /\ qrCode' = Swept(qrCode)
    /\ storeQr' = IF cleared THEN [storeQr EXCEPT ![sock[s].id] = 0] ELSE storeQr

\* a step that assigns neither wsocket.qrCode nor the column
QrRest == qrCode' = Swept(qrCode) /\ UNCHANGED <<storeQr, histVars, saveVars, loginVars, gwVars, initVars, lateVars>>

\* One session's transports with their qr payloads and the stored qrcode.
QrNext ==
    \/ \E id \in OneSession : startConnection(id) /\ LiveCap(MaxLive) /\ QrRest
    \/ \E s \in Sockets : makeWASocket(s) /\ QrRest
    \/ \E s \in Sockets, ok \in BOOLEAN :
          /\ onQr(s, ok) /\ qrIssued(s, ok)
          /\ UNCHANGED <<histVars, saveVars, loginVars, gwVars, initVars, lateVars>>
    \/ \E s \in Sockets : qrDone(s) /\ QrRest
    \/ \E s \in Sockets, isNewLogin, ok \in BOOLEAN : onOpen(s, isNewLogin, ok) /\ QrRest
    \/ \E s \in Sockets, ok \in BOOLEAN : openSaved(s, ok) /\ QrRest
    \/ \E s \in Sockets, cleared \in BOOLEAN :
          /\ openDone(s) /\ qrAtOpen(s, cleared)
          /\ UNCHANGED <<histVars, saveVars, loginVars, gwVars, initVars, lateVars>>
    \/ \E s \in Sockets, reason \in CloseReasons, ok \in BOOLEAN :
          onClose(s, reason, ok) /\ StrayCap(MaxLive) /\ QrRest
    \/ \E s \in Sockets : closeDone(s) /\ QrRest
    \/ \E id \in OneSession, stray \in BOOLEAN :
          restartTimeout(id, stray) /\ LiveCap(MaxLive) /\ QrRest

QrSpec == Init /\ [][QrNext]_vars

\* ------------------------------------------------------------- sendMessage
\* WhatsAppManager.sendMessage: how the call ends for the session the registry
\* holds, the answer of the media pipeline (pipelineOk) and of the transport's
\* sendMessage (sendOk = FALSE: it throws, the catch returns the failure)
sendMessageResult(id, pipelineOk, sendOk) ==
    IF sessions[id] = 0 THEN "not found"
    ELSE IF ~HasUser(sock[sessions[id]]) THEN "not connected"
    ELSE IF ~pipelineOk THEN "media failure"
    ELSE IF sendOk THEN "sent"
    ELSE "send failure"

\* the call went as far as session.sendMessage
ReachesTransport(r) == r \in {"sent", "send failure"}

\* sendMessage assigns nothing of the manager
sendMessage(id) ==
    /\ emitted' = "NONE"
    /\ UNCHANGED <<sessions, connectionPromises, deletedSessions, pendingReconnects,
                   strayTimers, retryAttempts, sock, storeStatus, recon>>

\* --------------------------------------------------------- callSocketMethod
\* an allow-list that lets end through as well
allowedMethodsAndEnd ==
    {"onWhatsApp", "logout", "sendMessage", "groupMetadata", "fetchStatus",
     "fetchBlocklist", "profilePictureUrl", "getBusinessProfile", "end"}

\* the allow-list of handleMessage
allowedMethods ==
    {"onWhatsApp", "logout", "sendMessage", "groupMetadata", "fetchStatus",
     "fetchBlocklist", "profilePictureUrl", "getBusinessProfile"}

\* typeof session[methodName] === 'function': the allow-listed methods and the
\* other functions of the transport handle
SocketFunctions == allowedMethods \cup {"end"}

\* WhatsAppManager.callSocketMethod: how the call ends; sendMessage goes through
\* this.sendMessage, any other function of the handle is called (callOk =
\* FALSE: it throws)
callSocketMethodResult(methodName, id, pipelineOk, callOk) ==
    IF sessions[id] = 0 THEN "not found"
    ELSE IF methodName = "sendMessage" THEN sendMessageResult(id, pipelineOk, callOk)
    ELSE IF methodName \notin SocketFunctions THEN "not available"
    ELSE IF callOk THEN "result"
    ELSE "call failure"

\* the ends that callSocketMethod throws (and rethrows from its catch)
Thrown(r) == r \in {"not found", "not available", "call failure"}

\* the method of the handle the call invoked, if any
Invokes(methodName, r) ==
    IF methodName = "sendMessage"
    THEN IF ReachesTransport(r) THEN <<"sendMessage">> ELSE << >>
    ELSE IF r \in {"result", "call failure"} THEN <<methodName>> ELSE << >>

\* the manager after callSocketMethod: a logout that was accepted makes the
\* transport close
callSocketMethod(methodName, id, pipelineOk, callOk) ==
    /\ Commit(IF methodName = "logout"
                 /\ callSocketMethodResult(methodName, id, pipelineOk, callOk) = "result"
              THEN LoggedOut(sock, id) ELSE sock,
              sessions, connectionPromises)
    /\ emitted' = "NONE"
    /\ UNCHANGED <<deletedSessions, pendingReconnects, strayTimers, retryAttempts,
                   storeStatus, recon>>

\* ------------------------------------------------- gateway: handleMessage
\* sendToClient to the requesting client, whose connection is open: the
\* message with the id of the request
sendToClientAnonymous(type, id, what) == <<type, 0, what>>

sendToClient(type, id, what) == <<type, id, what>>

\* a startConnection request whose await of the manager has not returned, and
\* the attempt whose promise that call awaits
StartPending == awaited # 0
Awaiting(s) == awaited # 0 /\ sock[s].waiters > 0

\* the manager answers the startConnection the request awaits: the promise of
\* the attempt is settled by this step (a transport event or a throw of
\* createConnection), the handler goes on and answers
StartReturns ==
    IF \E s \in Sockets : Awaiting(s) /\ sock'[s].waiters = 0
    THEN /\ request' = <<"startConnection", awaited>>
         /\ responses' =
               <<sendToClient("connectionUpdate", awaited,
                    IF \E s \in Sockets : Awaiting(s) /\ sock'[s].promise = "resolved"
                    THEN "success" ELSE "failure")>>
         /\ invoked' = << >>
         /\ awaited' = 0
    ELSE UNCHANGED gwVars

\* case 'startConnection': without data startConnection throws at its first
\* line and the outer catch answers; else the call returns at once (already
\* connected) or the handler awaits it
handleStartConnection(mid, hasData, id) ==
    /\ request' = <<"startConnection", mid>>
    /\ invoked' = << >>
    /\ IF hasData
       THEN /\ startConnection(id)
            /\ IF AlreadyConnected(id)
               THEN /\ responses' = <<sendToClient("connectionUpdate", mid, "success")>>
                    /\ UNCHANGED awaited
               ELSE /\ \A s \in Sockets : ~Awaiting(s)
                    /\ responses' = << >>
                    /\ awaited' = mid
       ELSE /\ sendMessage(id)
            /\ responses' = <<sendToClient("error", mid, "TypeError")>>
            /\ UNCHANGED awaited

\* case 'sendMessage': without data sendMessage throws at its first line
handleSendMessage(mid, hasData, id, pipelineOk, sendOk) ==
    /\ request' = <<"sendMessage", mid>>
    /\ sendMessage(id)
    /\ IF hasData
       THEN /\ responses' = <<sendToClient("messageReceived", mid,
                                           sendMessageResult(id, pipelineOk, sendOk))>>
            /\ invoked' = IF ReachesTransport(sendMessageResult(id, pipelineOk, sendOk))
                          THEN <<"sendMessage">> ELSE << >>
       ELSE /\ responses' = <<sendToClient("error", mid, "TypeError")>>
            /\ invoked' = << >>

\* cases 'resetConnection', 'deleteSession', 'disconnectSession': without
\* data.whatsappId the error answer, else the command and its result
handleCommand(type, mid, hasId, id, ok) ==
    /\ request' = <<type, mid>>
    /\ IF ~hasId
       THEN /\ sendMessage(id)
            /\ responses' = <<sendToClient("error", mid, "id required")>>
            /\ invoked' = << >>
            /\ UNCHANGED storeSession
       ELSE /\ CASE type = "resetConnection" ->
                      resetConnection(id) /\ UNCHANGED storeSession
                 [] type = "deleteSession" ->
                      deleteSession(id) /\ UNCHANGED storeSession
                 [] type = "disconnectSession" -> disconnectSession(id, ok)
            /\ responses' =
                  <<sendToClient("connectionUpdate", mid,
                       IF type = "disconnectSession" /\ ~(sessions[id] # 0 /\ ok)
                       THEN "failure" ELSE "success")>>
            /\ invoked' = IF sessions[id] = 0 THEN << >>
                          ELSE IF type = "deleteSession" THEN <<"end">>
                          ELSE IF type = "disconnectSession" THEN <<"logout">>
                          ELSE << >>

\* case 'callSocketMethod': methodName "" is a request without one
handleCallSocketMethod(mid, methodName, hasId, id, pipelineOk, callOk) ==
    /\ request' = <<"callSocketMethod", mid>>
    /\ IF methodName = "" \/ ~hasId \/ methodName \notin allowedMethods
       THEN /\ sendMessage(id)
            /\ responses' =
                  <<sendToClient("error", mid,
                       IF methodName = "" THEN "method required"
                       ELSE IF ~hasId THEN "id required"
                       ELSE "not allowed")>>
            /\ invoked' = << >>
       ELSE /\ callSocketMethod(methodName, id, pipelineOk, callOk)
            /\ responses' =
                  <<sendToClient(
                       IF Thrown(callSocketMethodResult(methodName, id, pipelineOk, callOk))
                       THEN "error" ELSE "socketMethodResult",
                       mid, callSocketMethodResult(methodName, id, pipelineOk, callOk))>>
            /\ invoked' = Invokes(methodName,
                                  callSocketMethodResult(methodName, id, pipelineOk, callOk))

\* default: a type the switch does not know
handleUnknown(mid) ==
    /\ request' = <<"unknown", mid>>
    /\ sendMessage(0)
    /\ responses' = <<sendToClient("error", mid, "unknown type")>>
    /\ invoked' = << >>

CommandTypes == {"resetConnection", "deleteSession", "disconnectSession"}
MessageIds == 1 .. MaxIds
MethodNames == {"", "sendMessage", "logout", "end"}

GwRest == UNCHANGED <<histVars, saveVars, loginVars, qrVars, initVars, lateVars>>
GwRestButBlob ==
    UNCHANGED <<histVars, creds, keys, saveInProgress, pendingSave, writes,
                joined, causedBy, writeFailed, saveRequests, loginVars, qrVars, initVars, lateVars>>
EventRest == StartReturns /\ GwRest

\* The requests of a client that sends the next one when the last is answered,
\* over transports that open and close.
GatewayNext ==
    \/ \E mid \in MessageIds, hasData \in BOOLEAN, id \in OneSession :
          /\ ~StartPending
          /\ handleStartConnection(mid, hasData, id) /\ LiveCap(MaxLive) /\ GwRest
    \/ \E mid \in MessageIds, hasData, pipelineOk, sendOk \in BOOLEAN, id \in OneSession :
          /\ ~StartPending
          /\ handleSendMessage(mid, hasData, id, pipelineOk, sendOk)
          /\ UNCHANGED awaited /\ GwRest
    \/ \E type \in CommandTypes, mid \in MessageIds, hasId, ok \in BOOLEAN,
          id \in OneSession :
          /\ ~StartPending
          /\ handleCommand(type, mid, hasId, id, ok)
          /\ UNCHANGED awaited /\ GwRestButBlob
    \/ \E mid \in MessageIds, methodName \in MethodNames,
          hasId, pipelineOk, callOk \in BOOLEAN, id \in OneSession :
          /\ ~StartPending
          /\ handleCallSocketMethod(mid, methodName, hasId, id, pipelineOk, callOk)
          /\ UNCHANGED awaited /\ GwRest
    \/ \E mid \in MessageIds :
          ~StartPending /\ handleUnknown(mid) /\ UNCHANGED awaited /\ GwRest
    \/ \E s \in Sockets : makeWASocket(s) /\ EventRest
    \/ \E s \in Sockets : makeWASocketThrows(s) /\ EventRest
    \/ \E s \in Sockets, ok \in BOOLEAN : onQr(s, ok) /\ EventRest
    \/ \E s \in Sockets : qrDone(s) /\ EventRest
    \/ \E s \in Sockets, isNewLogin, ok \in BOOLEAN : onOpen(s, isNewLogin, ok) /\ EventRest
    \/ \E s \in Sockets, ok \in BOOLEAN : openSaved(s, ok) /\ EventRest
    \/ \E s \in Sockets : openDone(s) /\ EventRest
    \/ \E s \in Sockets, reason \in CloseReasons, ok \in BOOLEAN :
          onClose(s, reason, ok) /\ StrayCap(MaxLive) /\ RetryCap(MaxTries) /\ EventRest
    \/ \E s \in Sockets : closeDone(s) /\ EventRest

GatewaySpec == Init /\ [][GatewayNext]_vars

\* sendMessage and callSocketMethod requests at any moment of a session's
\* transports: while they negotiate, show a qr, open and close.
SendNext ==
    \/ \E id \in OneSession : startConnection(id) /\ LiveCap(MaxLive) /\ Rest
    \/ \E hasData, pipelineOk, sendOk \in BOOLEAN, id \in OneSession :
          /\ handleSendMessage(MaxIds, hasData, id, pipelineOk, sendOk)
          /\ UNCHANGED awaited /\ GwRest
    \/ \E methodName \in MethodNames, hasId, pipelineOk, callOk \in BOOLEAN,
          id \in OneSession :
          /\ handleCallSocketMethod(MaxIds, methodName, hasId, id, pipelineOk, callOk)
          /\ UNCHANGED awaited /\ GwRest
    \/ \E s \in Sockets : makeWASocket(s) /\ Rest
    \/ \E s \in Sockets, ok \in BOOLEAN : onQr(s, ok) /\ Rest
    \/ \E s \in Sockets : qrDone(s) /\ Rest
    \/ \E s \in Sockets, isNewLogin, ok \in BOOLEAN : onOpen(s, isNewLogin, ok) /\ Rest
    \/ \E s \in Sockets, ok \in BOOLEAN : openSaved(s, ok) /\ Rest
    \/ \E s \in Sockets : openDone(s) /\ Rest
    \/ \E s \in Sockets, reason \in CloseReasons, ok \in BOOLEAN :
          onClose(s, reason, ok) /\ StrayCap(MaxLive) /\ RetryCap(MaxTries) /\ Rest
    \/ \E s \in Sockets : closeDone(s) /\ Rest

SendSpec == Init /\ [][SendNext]_vars

\* ---------------------------------------------------- initializeFromDatabase
\* the row the loop takes next: the answer is ordered by id
FirstRow(rows) == CHOOSE i \in rows : \A j \in rows : i <= j

\* getAllWhatsappConnections answers with the rows, or throws (the function
\* rethrows and the constructor's initializeConnections logs it)
initFetch(ok) ==
    /\ initLoop.pc = "start"
    /\ initLoop' = IF ok
                   THEN [pc |-> "loop", rows |-> getAllWhatsappConnections, awaiting |-> 0]
                   ELSE [pc |-> "failed", rows |-> {}, awaiting |-> 0]
    /\ emitted' = "NONE"
    /\ UNCHANGED <<sessions, connectionPromises, deletedSessions, pendingReconnects,
                   strayTimers, retryAttempts, sock, storeStatus, recon>>

\* the loop calls startConnection for its next row and awaits the answer
initStartConnection ==
    /\ initLoop.pc = "loop"
    /\ initLoop.awaiting = 0
    /\ initLoop.rows # {}
    /\ startConnection(FirstRow(initLoop.rows))
    /\ initLoop' = [initLoop EXCEPT
                       !.rows = @ \ {FirstRow(initLoop.rows)},
                       !.awaiting = IF AlreadyConnected(FirstRow(initLoop.rows))
                                    THEN 0 ELSE FirstRow(initLoop.rows)]

\* the startConnection the loop awaits returns: the promise of its attempt is
\* settled by this step
initResumes ==
    initLoop' =
       IF \E s \in Sockets : /\ sock[s].id = initLoop.awaiting
                             /\ sock[s].waiters > 0 /\ sock'[s].waiters = 0
       THEN [initLoop EXCEPT !.awaiting = 0]
       ELSE initLoop

IsoRest == UNCHANGED <<histVars, saveVars, loginVars, qrVars, gwVars, lateVars>>
IsoEvent == initResumes /\ IsoRest

\* Two rows of the store: the start-up loop, the transports of both sessions,
\* deleteSession for either and the reconciliation passes.
IsoNext ==
    \/ \E ok \in BOOLEAN : initFetch(ok) /\ IsoRest
    \/ initStartConnection /\ LiveCap(MaxSockets) /\ IsoRest
    \/ \E s \in Sockets : makeWASocket(s) /\ IsoEvent
    \/ \E s \in Sockets : makeWASocketThrows(s) /\ IsoEvent
    \/ \E s \in Sockets, isNewLogin, ok \in BOOLEAN : onOpen(s, isNewLogin, ok) /\ IsoEvent
    \/ \E s \in Sockets, ok \in BOOLEAN : openSaved(s, ok) /\ IsoEvent
    \/ \E s \in Sockets : openDone(s) /\ IsoEvent
    \/ \E s \in Sockets, reason \in CloseReasons, ok \in BOOLEAN :
          onClose(s, reason, ok) /\ StrayCap(MaxLive) /\ RetryCap(MaxTries) /\ IsoEvent
    \/ \E s \in Sockets : closeDone(s) /\ IsoEvent
    \/ \E id \in SessionIds : deleteSession(id) /\ Rest
    \/ \E ok \in BOOLEAN : reconcileFetch(ok) /\ Rest
    \/ reconcileApply /\ Rest

IsoSpec == Init /\ [][IsoNext]_vars

\* startConnection calls, transport events and restart timers, with the count
\* of restarts the timers have made since the session was last started by a
\* command, last CONNECTED, or last given up.
Restarted(id, n) == restarts' = [restarts EXCEPT ![id] = n]

RetryNext ==
    \/ \E id \in OneSession :
          /\ startConnection(id) /\ LiveCap(MaxLive)
          /\ IF AlreadyConnected(id) \/ AttemptInFlight(id)
             THEN UNCHANGED restarts ELSE Restarted(id, 0)
          /\ UNCHANGED <<lastPass, returned, saveVars, loginVars, qrVars, gwVars, initVars, lateVars>>
    \/ \E s \in Sockets : makeWASocket(s) /\ Rest
    \/ \E s \in Sockets : makeWASocketThrows(s) /\ Rest
    \/ \E s \in Sockets, ok \in BOOLEAN : onQr(s, ok) /\ Rest
    \/ \E s \in Sockets : qrDone(s) /\ Rest
    \/ \E s \in Sockets, isNewLogin, ok \in BOOLEAN : onOpen(s, isNewLogin, ok) /\ Rest
    \/ \E s \in Sockets, ok \in BOOLEAN : openSaved(s, ok) /\ Rest
    \/ \E s \in Sockets :
          openDone(s) /\ Restarted(sock[s].id, 0) /\ UNCHANGED <<lastPass, returned, saveVars, loginVars, qrVars, gwVars, initVars, lateVars>>
    \/ \E s \in Sockets, reason \in CloseReasons, ok \in BOOLEAN :
          onCloseTerminal(s, reason, ok) /\ Restarted(sock[s].id, 0) /\ UNCHANGED <<lastPass, returned, saveVars, loginVars, qrVars, gwVars, initVars, lateVars>>
    \/ \E s \in Sockets, reason \in CloseReasons, ok \in BOOLEAN :
          onCloseGiveUp(s, reason, ok) /\ Restarted(sock[s].id, 0) /\ UNCHANGED <<lastPass, returned, saveVars, loginVars, qrVars, gwVars, initVars, lateVars>>
    \/ \E s \in Sockets, reason \in CloseReasons :
          onCloseTransient(s, reason) /\ StrayCap(MaxStray) /\ Rest
    \/ \E s \in Sockets : closeDone(s) /\ Rest
    \/ \E id \in OneSession, stray \in BOOLEAN :
          /\ restarts[id] < MaxRestarts
          /\ restartTimeout(id, stray) /\ LiveCap(MaxLive)
          /\ Restarted(id, restarts[id] + 1)
          /\ UNCHANGED <<lastPass, returned, saveVars, loginVars, qrVars, gwVars, initVars, lateVars>>

RetrySpec == Init /\ [][RetryNext]_vars

\* One saveState closure and the store.
SaveNext ==
    \/ \E kind \in SaveKinds : saveState(kind) /\ UNCHANGED <<mgrVars, qrVars, gwVars, initVars, lateVars, histVars, loginVars>>
    \/ writeDone /\ UNCHANGED <<mgrVars, qrVars, gwVars, initVars, lateVars, histVars, loginVars>>
    \/ writeFails /\ UNCHANGED <<mgrVars, qrVars, gwVars, initVars, lateVars, histVars, loginVars>>

SaveSpec == Init /\ [][SaveNext]_vars

\* ------------------------------------- createConnection: the callers of saveState
\* the creds.update handler and the isNewLogin branch await enhancedSaveState()
\* and then put the serialization of the current state in connectionData.session;
\* keys.set does not
SetsSession(kind) == kind \in {"creds.update", "isNewLogin"}

\* kind calls saveState. It returns at once when a write is in flight, and the
\* caller goes on: connectionData.session set, and for the open handler of a new
\* login updateWhatsappStatus(CONNECTED) issued. Else the write is issued and the
\* caller awaits the end of the chain of writes.
saveCall(kind) ==
    /\ saveState(kind)
    /\ IF saveBusy(saveInProgress)
       THEN /\ connectionData' =
                  IF SetsSession(kind) THEN sessionData(creds', keys') ELSE connectionData
            /\ storeQueue' =
                  IF kind = "isNewLogin" THEN Append(storeQueue, "status") ELSE storeQueue
            /\ login' = IF kind = "isNewLogin" THEN "db1" ELSE login
            /\ UNCHANGED chainBy
       ELSE /\ chainBy' = kind
            /\ storeQueue' = Append(storeQueue, "session")
            /\ login' = IF kind = "isNewLogin" THEN "save" ELSE login
            /\ UNCHANGED connectionData
    /\ UNCHANGED queryFailed

\* the pg client answers the updateWhatsappSession at the head of its queue. A
\* follow-up write goes to the end of the queue; else the chain is over and the
\* caller that awaited it goes on as in saveCall.
sessionWritten(ok) ==
    /\ storeQueue # << >> /\ Head(storeQueue) = "session"
    /\ IF ok THEN writeDone ELSE writeFails
    /\ LET over == ~(ok /\ followUp(pendingSave))
           q == IF over THEN Tail(storeQueue) ELSE Append(Tail(storeQueue), "session")
       IN  /\ chainBy' = IF over THEN "none" ELSE chainBy
           /\ connectionData' =
                 IF over /\ SetsSession(chainBy) THEN sessionData(creds, keys)
                 ELSE connectionData
           /\ storeQueue' =
                 IF over /\ chainBy = "isNewLogin" THEN Append(q, "status") ELSE q
           /\ login' = IF over /\ chainBy = "isNewLogin" THEN "db1" ELSE login
    /\ UNCHANGED <<pairedAt, queryFailed>>

\* handleStreamRestart's timer callback: startConnection(connectionData),
\* createConnection, getAuthState(id, connectionData.session): a new closure
\* whose creds and keys are parsed from the blob, or fresh ones without a blob
\* (taken when the old closure has nothing in the client's queue)
restartGetAuthState ==
    /\ storeQueue = << >>
    /\ login \in {"none", "resolved"}
    /\ creds' = IF connectionData = << >> THEN 0 ELSE connectionData[1]
    /\ keys' = IF connectionData = << >> THEN 0 ELSE connectionData[2]
    /\ saveInProgress' = FALSE
    /\ pendingSave' = FALSE
    /\ UNCHANGED <<writes, storeSession, joined, causedBy, writeFailed, saveRequests,
                   loginVars>>

\* The creds.update handler, keys.set, the store and restarts.
RestartNext ==
    \/ \E kind \in {"creds.update", "keys.set"} :
          saveCall(kind) /\ UNCHANGED <<mgrVars, qrVars, gwVars, initVars, lateVars, histVars, pairedAt>>
    \/ \E ok \in BOOLEAN : sessionWritten(ok) /\ UNCHANGED <<mgrVars, qrVars, gwVars, initVars, lateVars, histVars>>
    \/ restartGetAuthState /\ UNCHANGED <<mgrVars, qrVars, gwVars, initVars, lateVars, histVars>>

RestartSpec == Init /\ [][RestartNext]_vars

\* ------------------------------------- connection.update: open of a new login
\* pairing has succeeded: the library puts the paired identity in creds and emits
\* creds.update
pairSuccess ==
    /\ pairedAt = 0 /\ login = "none"
    /\ saveCall("creds.update")
    /\ pairedAt' = creds'

\* connection.update with isNewLogin and connection 'open', up to the first
\* await that leaves the process
newLoginOpen ==
    /\ pairedAt # 0 /\ login = "none"
    /\ saveCall("isNewLogin")
    /\ UNCHANGED pairedAt

\* updateWhatsappStatus(CONNECTED) answered: clearWhatsappQRCode issued, or the
\* error caught, connectionUpdate emitted and resolve(wsocket)
statusUpdated(ok) ==
    /\ login = "db1"
    /\ storeQueue # << >> /\ Head(storeQueue) = "status"
    /\ storeQueue' = IF ok THEN Append(Tail(storeQueue), "qrcode") ELSE Tail(storeQueue)
    /\ login' = IF ok THEN "db2" ELSE "resolved"
    /\ queryFailed' = (queryFailed \/ ~ok)
    /\ UNCHANGED <<connectionData, chainBy, pairedAt>>

\* clearWhatsappQRCode answered (an error is caught): connectionUpdate emitted
\* and resolve(wsocket)
qrCleared(ok) ==
    /\ login = "db2"
    /\ storeQueue # << >> /\ Head(storeQueue) = "qrcode"
    /\ storeQueue' = Tail(storeQueue)
    /\ login' = "resolved"
    /\ queryFailed' = (queryFailed \/ ~ok)
    /\ UNCHANGED <<connectionData, chainBy, pairedAt>>

\* One transport that pairs and opens as a new login, its saveState closure and
\* the pg client.
LoginNext ==
    \/ \E kind \in {"creds.update", "keys.set"} :
          saveCall(kind) /\ UNCHANGED <<mgrVars, qrVars, gwVars, initVars, lateVars, histVars, pairedAt>>
    \/ pairSuccess /\ UNCHANGED <<mgrVars, qrVars, gwVars, initVars, lateVars, histVars>>
    \/ newLoginOpen /\ UNCHANGED <<mgrVars, qrVars, gwVars, initVars, lateVars, histVars>>
    \/ \E ok \in BOOLEAN : sessionWritten(ok) /\ UNCHANGED <<mgrVars, qrVars, gwVars, initVars, lateVars, histVars>>
    \/ \E ok \in BOOLEAN : statusUpdated(ok) /\ UNCHANGED <<mgrVars, qrVars, gwVars, initVars, lateVars, histVars, saveVars>>
    \/ \E ok \in BOOLEAN : qrCleared(ok) /\ UNCHANGED <<mgrVars, qrVars, gwVars, initVars, lateVars, histVars, saveVars>>

LoginSpec == Init /\ [][LoginNext]_vars


\* ------------------------------------- disconnectSession and the saveState closure
\* session.logout() has answered for a session of the registry:
\* deleteAuthState sends updateWhatsappSession(id, "") to the pg client and
\* awaits it
logoutAnswered ==
    /\ logout = "none"
    /\ logout' = "erase"
    /\ storeQueue' = Append(storeQueue, "erase")
    /\ UNCHANGED <<connectionData, chainBy, login, pairedAt, queryFailed>>

\* the pg client answers the erase at the head of its queue; an error is caught
\* in deleteAuthState; disconnectSession returns true
deleteAuthState(ok) ==
    /\ logout = "erase"
    /\ storeQueue # << >> /\ Head(storeQueue) = "erase"
    /\ storeQueue' = Tail(storeQueue)
    /\ storeSession' = IF ok THEN EmptyBlob ELSE storeSession
    /\ queryFailed' = (queryFailed \/ ~ok)
    /\ logout' = "returned"
    /\ UNCHANGED <<connectionData, chainBy, login, pairedAt>>

\* One paired connection, its saveState closure, the pg client and a logout;
\* save requests are those made before session.logout() has answered.
LogoutNext ==
    \/ \E kind \in {"creds.update", "keys.set"} :
          /\ logout = "none"
          /\ saveCall(kind)
          /\ UNCHANGED <<mgrVars, qrVars, gwVars, initVars, histVars, pairedAt, lateVars>>
    \/ \E ok \in BOOLEAN :
          sessionWritten(ok) /\ UNCHANGED <<mgrVars, qrVars, gwVars, initVars, histVars, lateVars>>
    \/ logoutAnswered /\ UNCHANGED <<mgrVars, qrVars, gwVars, initVars, histVars, saveVars, previous, reconciliationTimer, shutDown>>
    \/ \E ok \in BOOLEAN :
          /\ deleteAuthState(ok)
          /\ UNCHANGED <<mgrVars, qrVars, gwVars, initVars, histVars, creds, keys,
                         saveInProgress, pendingSave, writes, joined, causedBy,
                         writeFailed, saveRequests, previous, reconciliationTimer, shutDown>>

LogoutSpec == Init /\ [][LogoutNext]_vars

\* ------------------------------------- getAuthState for an id that had a closure
\* createConnection of a restart or of a startConnection after resetConnection:
\* getAuthState(id, connectionData.session) makes new creds, keys,
\* saveInProgress and pendingSave; the closure of the connection before keeps
\* its own, with whatever it has in the pg client's queue
getAuthState ==
    /\ ~previous.made
    /\ previous' = [made |-> TRUE, creds |-> creds, keys |-> keys,
                    saveInProgress |-> saveInProgress, pendingSave |-> pendingSave,
                    chainBy |-> chainBy]
    /\ storeQueue' = [i \in DOMAIN storeQueue |->
                        IF storeQueue[i] = "session" THEN "previous" ELSE storeQueue[i]]
    /\ creds' = IF connectionData = << >> THEN 0 ELSE connectionData[1]
    /\ keys' = IF connectionData = << >> THEN 0 ELSE connectionData[2]
    /\ saveInProgress' = FALSE
    /\ pendingSave' = FALSE
    /\ chainBy' = "none"
    /\ UNCHANGED <<writes, storeSession, joined, causedBy, writeFailed, saveRequests,
                   connectionData, login, pairedAt, queryFailed, logout,
                   reconciliationTimer, shutDown>>

\* the pg client answers a write of the previous closure: its saveState goes on
\* as in writeDone and writeFails, on the previous closure's variables, and at
\* the end of the chain its awaiting caller sets connectionData.session
previousWritten(ok) ==
    /\ storeQueue # << >> /\ Head(storeQueue) = "previous"
    /\ storeSession' = IF ok THEN Head(writes) ELSE storeSession
    /\ writeFailed' = (writeFailed \/ ~ok)
    /\ LET over == ~(ok /\ followUp(previous.pendingSave))
       IN  /\ writes' = IF over THEN Tail(writes)
                        ELSE Append(Tail(writes), sessionData(previous.creds, previous.keys))
           /\ storeQueue' = IF over THEN Tail(storeQueue)
                            ELSE Append(Tail(storeQueue), "previous")
           /\ previous' = [previous EXCEPT
                              !.saveInProgress = ~over,
                              !.pendingSave = IF ok THEN FALSE ELSE @,
                              !.chainBy = IF over THEN "none" ELSE @]
           /\ connectionData' =
                 IF over /\ SetsSession(previous.chainBy)
                 THEN sessionData(previous.creds, previous.keys)
                 ELSE connectionData
    /\ UNCHANGED <<creds, keys, saveInProgress, pendingSave, joined, causedBy,
                   saveRequests, chainBy, login, pairedAt, queryFailed, logout,
                   reconciliationTimer, shutDown>>

\* The creds.update handler, keys.set and the pg client across one restart.
HandoverNext ==
    \/ \E kind \in {"creds.update", "keys.set"} :
          saveCall(kind) /\ UNCHANGED <<mgrVars, qrVars, gwVars, initVars, histVars, pairedAt, lateVars>>
    \/ \E ok \in BOOLEAN :
          sessionWritten(ok) /\ UNCHANGED <<mgrVars, qrVars, gwVars, initVars, histVars, lateVars>>
    \/ getAuthState /\ UNCHANGED <<mgrVars, qrVars, gwVars, initVars, histVars>>
    \/ \E ok \in BOOLEAN :
          previousWritten(ok) /\ UNCHANGED <<mgrVars, qrVars, gwVars, initVars, histVars>>

HandoverSpec == Init /\ [][HandoverNext]_vars

\* ------------------------------------------------------------------ shutdown
\* clearInterval(reconciliationTimer), then cleanupSession for every id of the
\* registry
shutdown ==
    /\ ~shutDown
    /\ reconciliationTimer' = FALSE
    /\ shutDown' = TRUE
    /\ LET E == {i \in SessionIds : sessions[i] # 0} IN
       /\ pendingReconnects' = Without(pendingReconnects, E)
       /\ retryAttempts' = Without(retryAttempts, E)
       /\ Commit(EndSessions(sock, E), Without(sessions, E),
                 Without(connectionPromises, E))
    /\ emitted' = "NONE"
    /\ UNCHANGED <<deletedSessions, strayTimers, storeStatus, recon, logout, previous>>

\* The manager with startConnection calls until shutdown(), transport events,
\* restart timers and the reconciliation interval.
ShutdownNext ==
    \/ \E id \in OneSession : ~shutDown /\ startConnection(id) /\ LiveCap(MaxLive) /\ Rest
    \/ \E s \in Sockets : makeWASocket(s) /\ Rest
    \/ \E s \in Sockets, isNewLogin, ok \in BOOLEAN : onOpen(s, isNewLogin, ok) /\ Rest
    \/ \E s \in Sockets, ok \in BOOLEAN : openSaved(s, ok) /\ Rest
    \/ \E s \in Sockets : openDone(s) /\ Rest
    \/ \E s \in Sockets, reason \in CloseReasons, ok \in BOOLEAN :
          onClose(s, reason, ok) /\ StrayCap(MaxLive) /\ Rest
    \/ \E s \in Sockets : closeDone(s) /\ Rest
    \/ \E id \in OneSession, stray \in BOOLEAN :
          restartTimeout(id, stray) /\ LiveCap(MaxLive) /\ Rest
    \/ \E ok \in BOOLEAN : reconciliationTimer /\ reconcileFetch(ok) /\ Rest
    \/ reconcileApply /\ Rest
    \/ shutdown /\ UNCHANGED <<histVars, saveVars, loginVars, qrVars, gwVars, initVars>>

ShutdownSpec == Init /\ [][ShutdownNext]_vars

\* ------------------------------------- initializeFromDatabase to its end
\* the loop's own steps: the fetch is answered, the next row is started
InitLoopStep ==
    \/ \E ok \in BOOLEAN : initFetch(ok) /\ IsoRest
    \/ initStartConnection /\ LiveCap(MaxSockets) /\ IsoRest

\* createConnection goes on, a transport emits an event, a store query of a
\* handler is answered
InitEventStep ==
    \/ \E s \in Sockets : makeWASocket(s) /\ IsoEvent
    \/ \E s \in Sockets : makeWASocketThrows(s) /\ IsoEvent
    \/ \E s \in Sockets, isNewLogin, ok \in BOOLEAN : onOpen(s, isNewLogin, ok) /\ IsoEvent
    \/ \E s \in Sockets, ok \in BOOLEAN : openSaved(s, ok) /\ IsoEvent
    \/ \E s \in Sockets : openDone(s) /\ IsoEvent
    \/ \E s \in Sockets, reason \in CloseReasons, ok \in BOOLEAN :
          onClose(s, reason, ok) /\ StrayCap(MaxLive) /\ RetryCap(MaxTries) /\ IsoEvent
    \/ \E s \in Sockets : closeDone(s) /\ IsoEvent

InitLiveNext == InitLoopStep \/ InitEventStep

\* The start-up loop over two rows and the transports of its attempts: the
\* event loop runs every continuation that is ready, the store answers every
\* query, and a transport that negotiates emits open or close.
InitLiveSpec ==
    Init /\ [][InitLiveNext]_vars /\ WF_vars(InitLoopStep) /\ WF_vars(InitEventStep)

\* ==================================================================== claims
\* C1 (CallSpec): with startConnection calls and transport events only, one id
\* has at most one attempt in flight, and no call has returned success for an
\* attempt that ends in failure: every caller gets the attempt's outcome.
C1Original ==
    \A id \in SessionIds :
        /\ Cardinality({s \in Sockets : sock[s].id = id /\ sock[s].promise = "pending"}) <= 1
        /\ \A s \in Sockets :
              sock[s].id = id /\ sock[s].earlyOk => sock[s].promise # "rejected"

\* C2 (PairSpec): in every reachable state at most one transport per id is
\* negotiating (opened, neither its open nor its close event handled yet).
C2Original ==
    \A id \in SessionIds :
        Cardinality({s \in Sockets : sock[s].id = id /\ sock[s].st = "negotiating"}) <= 1

\* C3 (RetrySpec): the restart timers restart a session at most 5 times in a
\* row without a CONNECTED in between.
C3Original == \A id \in SessionIds : restarts[id] <= 5

\* C4 (Spec): a close that reaches the retry scheduler with attempt count n in
\* 1..5 sets a timer of min(2000 * 2^(n-1), 30000) ms, the delays are
\* non-decreasing in n and at most 30000; with n = 6 it sets no timer and writes
\* DISCONNECTED to the row.
C4Backoff ==
    [][\A s \in Sockets, reason \in CloseReasons, ok \in BOOLEAN :
          (onCloseTransient(s, reason) \/ onCloseGiveUp(s, reason, ok)) =>
             \A id \in {sock[s].id} :
             LET n == retryAttempts[id] + 1
             IN IF n <= 5
                THEN /\ pendingReconnects'[id] = Min(2000 * Pow2(n - 1), 30000)
                     /\ (LiveTimers(id))' = LiveTimers(id) + 1
                     /\ \A m \in 1..n : /\ backoffDelay(m - 1) <= pendingReconnects'[id]
                                        /\ backoffDelay(m - 1) <= 30000
                ELSE /\ n = 6
                     /\ pendingReconnects' = pendingReconnects
                     /\ strayTimers' = strayTimers
                     /\ ok /\ storeStatus[id] # "ABSENT" => storeStatus'[id] = "DISCONNECTED"]_vars

\* the retries are used up: five timers were set, of which pendingReconnects
\* holds the last, and the sixth close has written DISCONNECTED
C4Witness ==
    \E s \in Sockets :
        /\ sock[s].hClose = "maxdb"
        /\ pendingReconnects[sock[s].id] = 30000
        /\ strayTimers[sock[s].id] = 4
        /\ storeStatus[sock[s].id] = "DISCONNECTED"

\* C5 (SaveSpec): at most one updateWhatsappSession of a saveState closure is in
\* flight at any instant.
C5OneWrite == Len(writes) <= 1

\* a write is in flight and two more save requests have come
C5Witness == Len(writes) = 1 /\ joined >= 2 /\ pendingSave

\* C6 (SaveSpec): when every write has succeeded and none is in flight, the
\* stored blob is the serialization of the current creds and keys.
C6FinalBlob ==
    saveRequests /\ ~writeFailed /\ writes = << >> => storeSession = <<creds, keys>>

\* idle after a burst: the last write was the follow-up of two joined requests
C6Witness ==
    /\ ~writeFailed /\ writes = << >> /\ causedBy >= 2
    /\ creds >= 1 /\ keys >= 1
    /\ storeSession = <<creds, keys>>

\* C7 (SaveSpec): a save request that arrives during a write writes nothing;
\* when the write succeeds, k >= 1 such requests are followed by exactly one
\* write, of the state current then, and k = 0 by none.
C7Coalesce ==
    [][/\ \A kind \in SaveKinds :
             saveState(kind) /\ writes # << >> =>
                writes' = writes /\ storeSession' = storeSession
       /\ writeDone /\ joined >= 1 => writes' = << <<creds, keys>> >>
       /\ writeDone /\ joined = 0 /\ ~writeFailed => writes' = << >>]_vars

\* the write in flight is the one follow-up of two joined requests
C7Witness ==
    /\ Len(writes) = 1 /\ causedBy >= 2 /\ joined = 0
    /\ writes[1] = <<creds, keys>>
    /\ storeSession # << >>

\* C8 (Spec): a close with status 401 or 403, or 408 and the message 'QR refs
\* attempts ended', sets no restart timer, leaves the id out of the registry
\* and writes DISCONNECTED to the row.
C8Terminal ==
    [][\A s \in Sockets, reason \in CloseReasons, ok \in BOOLEAN :
          /\ reason[1] \in {401, 403} \/ reason = <<408, "QR refs attempts ended">>
          /\ onClose(s, reason, ok)
          => \A id \in {sock[s].id} :
               /\ pendingReconnects' = pendingReconnects
               /\ strayTimers' = strayTimers
               /\ sessions'[id] = 0
               /\ ok /\ storeStatus[id] # "ABSENT" => storeStatus'[id] = "DISCONNECTED"]_vars

\* a terminal close of a registered session has been handled
C8Witness ==
    \E s \in Sockets :
        /\ sock[s].hClose = "termdb"
        /\ HasUser(sock[s])
        /\ sessions[sock[s].id] = 0
        /\ LiveTimers(sock[s].id) = 0
        /\ storeStatus[sock[s].id] = "DISCONNECTED"

\* C9 (Spec): a close handler that has ended has settled the attempt of its
\* transport and left no attempt token naming it, whether or not the store
\* write succeeded.
C9Original ==
    \A s \in Sockets :
        sock[s].hClose \in {"done", "dead"} =>
            /\ sock[s].promise # "pending"
            /\ connectionPromises[sock[s].id] # s

\* C10 (Spec): a close with any other reason, the retry count below 5, sets
\* exactly one restart timer, raises the retry count by one and emits the
\* DISCONNECTED connectionUpdate.
C10Transient ==
    [][\A s \in Sockets, reason \in CloseReasons, ok \in BOOLEAN :
          /\ ~(reason[1] \in {401, 403} \/ reason = <<408, "QR refs attempts ended">>)
          /\ onClose(s, reason, ok)
          /\ retryAttempts[sock[s].id] < 5
          => \A id \in {sock[s].id} :
               /\ (LiveTimers(id))' = LiveTimers(id) + 1
               /\ pendingReconnects'[id] # 0
               /\ retryAttempts'[id] = retryAttempts[id] + 1
               /\ emitted' = "DISCONNECTED"]_vars

\* the third transient close in a row: 8000 ms timer set, two earlier timers live
C10Witness ==
    \E id \in SessionIds :
        /\ emitted = "DISCONNECTED"
        /\ retryAttempts[id] = 3
        /\ pendingReconnects[id] = 8000
        /\ strayTimers[id] = 2
        /\ sessions[id] = 0

\* C11 (Spec): in every reachable state an id has at most one live restart
\* timer, and pendingReconnects holds it.
C11Original ==
    \A id \in SessionIds : strayTimers[id] = 0 /\ LiveTimers(id) <= 1

\* C12 (Spec): after deleteSession(id) the id is in deletedSessions, no restart
\* timer of the id is live (so none can fire), its retry count and attempt
\* token are gone and it is not in the registry.
C12Original ==
    [][\A id \in SessionIds :
          deleteSession(id) =>
             /\ id \in deletedSessions'
             /\ pendingReconnects'[id] = 0
             /\ strayTimers'[id] = 0
             /\ retryAttempts'[id] = 0
             /\ connectionPromises'[id] = 0
             /\ sessions'[id] = 0]_vars

\* C13 (CommandSpec): disconnectSession(id) and resetConnection(id) each leave
\* no restart timer of the id live.
C13Original ==
    [][\A id \in SessionIds :
          (resetConnection(id) \/ \E ok \in BOOLEAN : disconnectSession(id, ok))
             => (LiveTimers(id))' = 0]_vars

\* C14 (Spec): a reconciliation pass that finds a registry session absent from
\* the fetched snapshot evicts it: its transport no longer delivers events, its
\* retry count and attempt token are cleared, and no restart timer of the id
\* stays live.
C14Original ==
    [][reconcileApply =>
          \A id \in SessionIds :
             (sessions[id] # 0 /\ id \notin recon.ids) =>
                /\ sessions'[id] = 0
                /\ ~Listening(sock'[sessions[id]])
                /\ retryAttempts'[id] = 0
                /\ connectionPromises'[id] = 0
                /\ (LiveTimers(id))' = 0]_vars

C16Original ==
    [][(reconcileFetch(FALSE) \/ reconcileApply) => deletedSessions' = {}]_vars

\* C17 (CommandSpec): deleteSession(id) returns true in every state, and a
\* deleteSession(id) made right after a deleteSession(id) leaves the manager
\* state as the first call left it.
C17Idempotent ==
    [][\A id \in SessionIds :
          (/\ deleteSession(id)
           /\ returned' # << >>
           /\ returned'[Len(returned')][1] = "deleteSession") =>
             /\ returned'[Len(returned')] = <<"deleteSession", id, TRUE>>
             /\ (/\ returned # << >>
                 /\ returned[Len(returned)] = <<"deleteSession", id, TRUE>>)
                   => UNCHANGED mgrVars]_vars

\* deleteSession(id) has returned true twice in a row, the first call having
\* taken the id out of a state where an orphaned restart timer was live
C17Witness ==
    \E id \in SessionIds :
       /\ returned = <<<<"deleteSession", id, TRUE>>, <<"deleteSession", id, TRUE>>>>
       /\ id \in deletedSessions
       /\ sessions[id] = 0 /\ connectionPromises[id] = 0
       /\ pendingReconnects[id] = 0 /\ retryAttempts[id] = 0
       /\ strayTimers[id] > 0

\* C18 (Spec): when the open handler has finished (CONNECTED emitted, the
\* attempt resolved), the retry count of the id is zero, whoever started the
\* attempt.
C18Original ==
    [][\A s \in Sockets :
          openDone(s) => \A id \in {sock[s].id} : retryAttempts'[id] = 0]_vars

\* blob a holds an older state than blob b
Older(a, b) ==
    /\ b # << >>
    /\ \/ a = << >>
       \/ a # b /\ a[1] <= b[1] /\ a[2] <= b[2]

\* C20 (RestartSpec): the blob a restart starts from is never older than the
\* blob the store holds.
C20Original ==
    [][restartGetAuthState => ~Older(connectionData, storeSession)]_vars

\* the store holds a blob whose creds have the paired identity
IdentityStored == storeSession # << >> /\ storeSession[1] >= pairedAt

\* C19 (LoginSpec): when the open handler of a new login has resolved the
\* attempt, a write of a blob that holds the paired identity has completed.
C19Original == login = "resolved" => IdentityStored

\* C21 (Spec): when the createConnection call of a restart timer throws before
\* a transport exists, the session is left with a live restart timer or with
\* the stored status DISCONNECTED.
C21Original ==
    [][\A s \in Sockets :
          (makeWASocketThrows(s) /\ sock[s].byTimer) =>
             \A id \in {sock[s].id} :
                (LiveTimers(id))' > 0 \/ storeStatus'[id] = "DISCONNECTED"]_vars

\* the registry holds a session whose open handler has set status CONNECTED
Connected(id) == sessions[id] # 0 /\ sock[sessions[id]].hOpen \in {"db", "done"}

\* C22 (CommandSpec): startConnection(id) for a CONNECTED session returns
\* success at once: no transport is created, the call joins no attempt, and
\* registry, attempt map, retry counts, restart timers and store are unchanged
\* (the step is told from the other commands by what it records in returned).
C22NoOp ==
    [][\A id \in SessionIds :
          (/\ startConnection(id) /\ Connected(id)
           /\ \/ returned' = << >>
              \/ returned'[Len(returned')][1] = "startConnection") =>
             /\ UNCHANGED <<sessions, connectionPromises, retryAttempts,
                            pendingReconnects, strayTimers, storeStatus, storeSession>>
             /\ \A s \in Sockets :
                   sock'[s].st = sock[s].st /\ sock'[s].waiters = sock[s].waiters
             /\ (/\ returned' # << >>
                 /\ returned'[Len(returned')][1] = "startConnection")
                   => returned'[Len(returned')] = <<"startConnection", id, TRUE>>]_vars

\* startConnection has returned success for a CONNECTED session whose restart
\* timer and retry count of an earlier close are still there
C22Witness ==
    \E id \in SessionIds :
       /\ returned # << >>
       /\ returned[Len(returned)] = <<"startConnection", id, TRUE>>
       /\ Connected(id)
       /\ pendingReconnects[id] # 0 /\ retryAttempts[id] # 0

\* C23 (Spec): the handler of an event of a transport starts only when no
\* handler of an earlier event of that transport is suspended at a store write
\* or a credential save.
C23Original ==
    [][\A s \in Sockets :
          (\/ \E ok \in BOOLEAN : onQr(s, ok)
           \/ \E isNewLogin, ok \in BOOLEAN : onOpen(s, isNewLogin, ok)
           \/ \E reason \in CloseReasons, ok \in BOOLEAN : onClose(s, reason, ok))
             => HandlersIdle(sock[s])]_vars

\* C24 (QrSpec): a CONNECTED session in the registry carries no qrCode, and
\* once its open handler has finished the stored qrcode is cleared.
C24Original ==
    \A id \in SessionIds :
       Connected(id) =>
          /\ qrCode[sessions[id]] = 0
          /\ sock[sessions[id]].hOpen = "done" => storeQr[id] = 0

\* C25: a sendMessage request reaches the transport's sendMessage only for a
\* session that is in the registry and CONNECTED, and only when the media
\* pipeline succeeded; an unknown id is answered not found, a session that is
\* not CONNECTED not connected, a pipeline failure with that failure, and the
\* call leaves the manager's state as it was.
C25Original ==
    [][\A id \in SessionIds, mid \in MessageIds, pipelineOk, sendOk \in BOOLEAN :
          handleSendMessage(mid, TRUE, id, pipelineOk, sendOk) =>
             /\ "sendMessage" \in Range(invoked') => (Connected(id) /\ pipelineOk)
             /\ sessions[id] = 0 => responses'[1][3] = "not found"
             /\ (sessions[id] # 0 /\ ~Connected(id)) => responses'[1][3] = "not connected"
             /\ (Connected(id) /\ ~pipelineOk) => responses'[1][3] = "media failure"
             /\ UNCHANGED <<sessions, connectionPromises, retryAttempts,
                            pendingReconnects, sock, storeStatus>>]_vars

\* C26: a callSocketMethod request that names a method outside the allow-list
\* is answered with the error "not allowed", calls nothing on the transport
\* handle and changes nothing of the manager; an allow-listed sendMessage ends
\* as the send path ends for the same session and pipeline answer, so that a
\* pipeline failure keeps it from the transport.
C26NotAllowed ==
    [][\A id \in SessionIds, mid \in MessageIds, methodName \in MethodNames \ {""},
          hasId, pipelineOk, callOk \in BOOLEAN :
          handleCallSocketMethod(mid, methodName, hasId, id, pipelineOk, callOk) =>
             /\ methodName \notin {"onWhatsApp", "logout", "sendMessage", "groupMetadata",
                                   "fetchStatus", "fetchBlocklist", "profilePictureUrl",
                                   "getBusinessProfile"} =>
                   /\ invoked' = << >>
                   /\ hasId => responses' = <<<<"error", mid, "not allowed">>>>
                   /\ UNCHANGED <<sessions, connectionPromises, retryAttempts,
                                  pendingReconnects, sock, storeStatus>>
             /\ (methodName = "sendMessage" /\ hasId /\ sessions[id] # 0) =>
                   /\ responses'[1][3] = sendMessageResult(id, pipelineOk, callOk)
                   /\ ~pipelineOk => invoked' = << >>]_vars

\* a request for end on a session of the registry has been refused
C26Witness ==
    \E id \in SessionIds :
       /\ sessions[id] # 0
       /\ request = <<"callSocketMethod", MaxIds>>
       /\ responses = <<<<"error", MaxIds, "not allowed">>>>
       /\ invoked = << >>

\* C27: a callSocketMethod request for an allow-listed method on a session
\* that is in the registry but not CONNECTED is answered not connected and
\* calls nothing on the transport handle.
C27Original ==
    [][\A id \in SessionIds, mid \in MessageIds, methodName \in MethodNames \cap allowedMethods,
          pipelineOk, callOk \in BOOLEAN :
          (/\ handleCallSocketMethod(mid, methodName, TRUE, id, pipelineOk, callOk)
           /\ sessions[id] # 0
           /\ ~Connected(id)) =>
             /\ responses'[1][3] = "not connected"
             /\ invoked' = << >>]_vars

\* C28: every failure of the connect sequence is returned by startConnection:
\* once the transport of an attempt has failed to open or has closed and its
\* handlers have finished, no startConnection call is still awaiting the attempt.
C28Original ==
    \A s \in Sockets :
       (sock[s].st \in {"closed", "failed"} /\ HandlersIdle(sock[s])) => sock[s].waiters = 0

\* C30: every request is answered exactly once with its own id: a request
\* whose handler has finished has one response and that response carries the
\* id of the request, and a startConnection request whose handler still awaits
\* the manager waits for an attempt that can still settle.
C30Original ==
    /\ (request # << >> /\ ~StartPending) =>
          Len(responses) = 1 /\ responses[1][2] = request[2]
    /\ StartPending =>
          /\ responses = << >>
          /\ \E s \in Sockets :
                /\ Awaiting(s)
                /\ ~(sock[s].st \in {"closed", "failed", "ended"} /\ HandlersIdle(sock[s]))

\* what the manager keeps for one id: registry entry, attempt token, retry
\* count, the timer pendingReconnects holds and the timers it no longer holds
Entry(i) ==
    <<sessions[i], connectionPromises[i], retryAttempts[i], pendingReconnects[i],
      strayTimers[i]>>

\* the start-up loop awaits the startConnection of one row, whose attempt has
\* failed or closed with its handlers finished, while other rows wait
InitBlocked ==
    \E s \in Sockets :
       /\ sock[s].id = initLoop.awaiting
       /\ sock[s].waiters > 0
       /\ sock[s].st \in {"closed", "failed"}
       /\ HandlersIdle(sock[s])
       /\ initLoop.rows # {}

\* C29: sessions are isolated: a step that is not the eviction of a
\* reconciliation pass changes registry entry, attempt token, retry count and
\* timers of at most one id, and no session's failure keeps the start-up loop
\* from going on to the rows of the other sessions.
C29Original ==
    /\ [][UNCHANGED recon =>
             Cardinality({i \in SessionIds : (Entry(i))' # Entry(i)}) <= 1]_vars
    /\ []~InitBlocked

\* C31: resetConnection hands recovery to the caller: when the close of a
\* transport that resetConnection has closed is handled, the manager sets no
\* restart timer for the id.
C31Original ==
    [][\A s \in Sockets :
          (sock[s].st = "closing" /\ sock'[s].st \in {"closed", "free"}) =>
             \A id \in {sock[s].id} : (LiveTimers(id))' <= LiveTimers(id)]_vars

\* C32: a restart timer that fires while the id is CONNECTED leaves that
\* session in the registry with its transport open.
C32Original ==
    [][\A id \in SessionIds, stray \in BOOLEAN :
          (restartTimeout(id, stray) /\ Connected(id) /\ sock[sessions[id]].st = "open") =>
             \A s \in {sessions[id]} : sessions'[id] = s /\ sock'[s].st = "open"]_vars

\* C33: after deleteSession(id), and until a startConnection for the id takes
\* the deletion marker away, the id is not in the registry.
C33Original == \A id \in SessionIds : id \in deletedSessions => sessions[id] = 0

\* C34: the registry never holds a session whose transport has emitted its
\* close event.
C34Original == \A id \in SessionIds : sessions[id] # 0 => sock[sessions[id]].st # "closed"

\* C35: once disconnectSession has returned true with its erase applied, the
\* stored credential blob is empty and stays empty: no write of the logged-out
\* connection's save path lands after the erase.
C35Original == (logout = "returned" /\ ~queryFailed) => storeSession = EmptyBlob

\* C36: once getAuthState has made the closure of a restarted connection, the
\* closure of the connection before has no store write in flight, so none of
\* its writes lands among or after those of the new connection.
C36Original == previous.made => ~previous.saveInProgress

\* C37: a save requested while a write was in flight is not stranded by the
\* failure of that write: the pending marker is never left set with no write
\* in flight to pick it up.
C37Original == pendingSave => saveInProgress /\ writes # << >>

\* C38: when a reconciliation pass has run to its end, no id that the fetched
\* snapshot lacks keeps a pending restart timer, a retry count or an attempt
\* token, whether or not the registry held it.
C38Original ==
    [][(recon.pc = "fetched" /\ recon'.pc = "idle") =>
          \A id \in SessionIds \ recon.ids :
             /\ pendingReconnects'[id] = 0
             /\ retryAttempts'[id] = 0
             /\ connectionPromises'[id] = 0]_vars

\* C39: when shutdown() completes, the reconciliation interval is stopped, the
\* registry is empty and no restart timer is pending for any id.
C39Original ==
    [][(~shutDown /\ shutDown') =>
          /\ ~reconciliationTimer'
          /\ \A id \in SessionIds : sessions'[id] = 0 /\ pendingReconnects'[id] = 0]_vars

\* C40: once the store has answered with the rows, initializeFromDatabase
\* eventually calls startConnection for every one of them.
C40Original == (initLoop.pc = "loop") ~> (initLoop.pc = "loop" /\ initLoop.rows = {})

=============================================================================
